---- MODULE Spec2Model ----
(***************************************************************************)
(* swlm: the MasterStack layout manager                                    *)
(* (managers/MasterStackLayoutManager.py).                                 *)
(*                                                                         *)
(* One manager instance is modelled.  Its state is masterId and stackIds   *)
(* (index 1 = bottom of stack = deque index 0, last index = top of stack). *)
(* Every handler runs to completion, so each handler is one action.  The   *)
(* commands a handler sends to the command sink (con.command) are kept in  *)
(* cmds, in the order issued; raised tells whether the handler ended by an *)
(* uncaught exception.  focused is the window utils.findFocused reports:   *)
(* it belongs to the compositor, and the user or the compositor moves it   *)
(* between notifications (FocusMoves).  op, event and pre record the last  *)
(* step: the handler or binding that ran, the container id of its event    *)
(* and the model it started from.                                          *)
(***************************************************************************)
EXTENDS Integers, Sequences, FiniteSets, TLC

VARIABLES masterId, stackIds, masterWidth, cmds, raised, op, focused, event, pre, workspaceNodes, managers, workspaceWindows, options, workspaces, focusedWorkspace, dispatched

vars == <<masterId, stackIds, masterWidth, cmds, raised, op, focused, event, pre,
          workspaceNodes, managers, workspaceWindows, options, workspaces,
          focusedWorkspace, dispatched>>

(* The dispatcher's state (src/swlm.py) and the manager's. *)
dispatcherVars == <<managers, workspaceWindows, options, workspaces, focusedWorkspace,
                    dispatched>>

managerVars == <<masterId, stackIds, masterWidth, cmds, raised, op, event, pre,
                 workspaceNodes>>

(* Bounds of the model. *)
NumWindows == 3
MaxStack == 3
NumWorkspaces == 2
MaxListed == 2

(* Window identifiers handed out by the compositor; 0 is never one. *)
Ids == 1..NumWindows

----------------------------------------------------------------------------
(* Sequence helpers (collections.deque operations). *)

Front(s) == SubSeq(s, 1, Len(s) - 1)

Last(s) == s[Len(s)]

Reverse(s) == [i \in 1..Len(s) |-> s[Len(s) + 1 - i]]

SeqToSet(s) == {s[i] : i \in 1..Len(s)}

Contains(s, x) == \E i \in 1..Len(s) : s[i] = x

(* Index of the first occurrence of x in s; 0 when x is absent. *)
FirstIndex(s, x) ==
  IF Contains(s, x) THEN CHOOSE i \in 1..Len(s) : s[i] = x /\ \A j \in 1..(i - 1) : s[j] # x
  ELSE 0

(* deque.remove(x): drops the first occurrence of x. *)
RemoveAt(s, i) == SubSeq(s, 1, i - 1) \o SubSeq(s, i + 1, Len(s))

(* s with positions i and j exchanged. *)
SwapAt(s, i, j) == [s EXCEPT ![i] = s[j], ![j] = s[i]]

----------------------------------------------------------------------------
(* Windows as utils.findFocused returns them, and the exclusion predicate. *)

NoneWindow == [id |-> 0, type |-> "none", hasWorkspace |-> FALSE, floating |-> "none"]

TiledWindow(i) == [id |-> i, type |-> "con", hasWorkspace |-> TRUE, floating |-> "user_off"]

FloatingWindow(i) == [id |-> i, type |-> "con", hasWorkspace |-> TRUE, floating |-> "user_on"]

FloatingCon(i) == [id |-> i, type |-> "floating_con", hasWorkspace |-> TRUE, floating |-> "none"]

(* The workspace container itself, focused when the workspace is empty. *)
WorkspaceCon == [id |-> NumWindows + 1, type |-> "workspace", hasWorkspace |-> TRUE, floating |-> "none"]

Orphan(i) == [id |-> i, type |-> "con", hasWorkspace |-> FALSE, floating |-> "none"]

IsNone(window) == window = NoneWindow

FloatingOn == {"auto_on", "user_on"}

isExcluded(window) ==
  IF IsNone(window) THEN TRUE
  ELSE IF window.type # "con" THEN TRUE
  ELSE IF ~window.hasWorkspace THEN TRUE
  ELSE IF window.floating # "none" /\ window.floating \in FloatingOn THEN TRUE
  ELSE FALSE

(* What findFocused may return when a notification is handled. *)
FocusChoices ==
  {NoneWindow, WorkspaceCon} \cup {TiledWindow(i) : i \in Ids}
    \cup {FloatingWindow(1), FloatingCon(1), Orphan(1)}

----------------------------------------------------------------------------
(* Commands sent to the command sink. *)

Cmd(name, addressed, id, arg) ==
  [cmd |-> name, addressed |-> addressed, con_id |-> id, arg |-> arg]

CmdFocus(id) == Cmd("focus", TRUE, id, 0)

CmdSwap(id, other) == Cmd("swap container with con_id", TRUE, id, other)

CmdMark(id) == Cmd("mark --add move_target", TRUE, id, 0)

CmdMoveToMark(id) == Cmd("move container to mark move_target", TRUE, id, 0)

CmdUnmark(id) == Cmd("unmark move_target", TRUE, id, 0)

CmdResize(id, width) == Cmd("resize set", TRUE, id, width)

CmdSplitVertical(id) == Cmd("split vertical", TRUE, id, 0)

CmdSplitHorizontal(id) == Cmd("split horizontal", TRUE, id, 0)

CmdLayoutStack(id) == Cmd("layout stackLayout", TRUE, id, 0)

CmdLayoutSplith(id) == Cmd("layout splith", TRUE, id, 0)

CmdMoveLeft == Cmd("move left", FALSE, 0, 0)

CmdMoveUp == Cmd("move up", FALSE, 0, 0)

(* Result of a method: the model afterwards, the commands issued, raised. *)
Result(m, s, c, r) == [masterId |-> m, stackIds |-> s, cmds |-> c, raised |-> r]

----------------------------------------------------------------------------
(* options.masterWidth: None, or a percentage. *)
WidthChoices == {[isNone |-> TRUE, ppt |-> 0], [isNone |-> FALSE, ppt |-> 50]}

(* setMasterWidth, called with the master it addresses. *)
setMasterWidth(m, width) ==
  IF ~width.isNone THEN <<CmdResize(m, width.ppt)>> ELSE <<>>

(* moveWindow: mark the target, move the source to the mark, clear the mark. *)
moveWindow(moveId, targetId) ==
  <<CmdMark(targetId), CmdMoveToMark(moveId), CmdUnmark(targetId)>>

(* pushWindow with the previous master put at the bottom of the stack *)
(* (appendleft for append).                                          *)
pushWindowAppendLeft(m, s, windowId, width) ==
  IF m = 0 THEN Result(windowId, s, <<>>, FALSE)
  ELSE IF Len(s) = 0 THEN
    Result(windowId, <<m>> \o s,
           moveWindow(windowId, m) \o <<CmdMoveLeft>> \o setMasterWidth(windowId, width),
           FALSE)
  ELSE
    Result(windowId, <<m>> \o s,
           moveWindow(windowId, Last(s))
             \o <<CmdFocus(windowId), CmdMoveUp, CmdSwap(windowId, m)>>
             \o setMasterWidth(windowId, width),
           FALSE)

pushWindow(m, s, windowId, width) ==
  IF m = 0 THEN Result(windowId, s, <<>>, FALSE)
  ELSE IF Len(s) = 0 THEN
    Result(windowId, Append(s, m),
           moveWindow(windowId, m) \o <<CmdMoveLeft>> \o setMasterWidth(windowId, width),
           FALSE)
  ELSE
    Result(windowId, Append(s, m),
           moveWindow(windowId, Last(s))
             \o <<CmdFocus(windowId), CmdMoveUp, CmdSwap(windowId, m)>>
             \o setMasterWidth(windowId, width),
           FALSE)

(* popWindow that promotes the bottom of the stack (popleft for pop). *)
popWindowPopLeft(m, s, width) ==
  IF Len(s) = 0 THEN Result(0, s, <<>>, FALSE)
  ELSE
    LET newMaster == s[1]
        rest == Tail(s)
    IN Result(newMaster, rest,
              <<CmdFocus(newMaster)>>
                \o (IF Len(rest) # 0
                    THEN <<CmdMoveLeft>> \o setMasterWidth(newMaster, width)
                    ELSE <<>>),
              FALSE)

(* popWindow that clears the master slot without promoting the top of *)
(* the stack.                                                         *)
popWindowClearsMaster(m, s, width) == Result(0, s, <<>>, FALSE)

popWindow(m, s, width) ==
  IF Len(s) = 0 THEN Result(0, s, <<>>, FALSE)
  ELSE
    LET newMaster == Last(s)
        rest == Front(s)
    IN Result(newMaster, rest,
              <<CmdFocus(newMaster)>>
                \o (IF Len(rest) # 0
                    THEN <<CmdMoveLeft>> \o setMasterWidth(newMaster, width)
                    ELSE <<>>),
              FALSE)

setStackLayout(m, s) ==
  IF Len(s) # 0
  THEN <<CmdSplitVertical(s[1]), CmdLayoutStack(s[1])>>
  ELSE <<CmdSplitHorizontal(m), CmdLayoutSplith(m)>>

(* removeWindow without the try/except around stackIds.remove. *)
removeWindowNoCatch(m, s, windowId, width) ==
  IF m = windowId THEN popWindow(m, s, width)
  ELSE IF Contains(s, windowId)
  THEN Result(m, RemoveAt(s, FirstIndex(s, windowId)), <<>>, FALSE)
  ELSE Result(m, s, <<>>, TRUE)

(* stackIds.remove(windowId) inside try/except: an absent id raises *)
(* ValueError, which the handler catches and logs.                  *)
removeWindow(m, s, windowId, width) ==
  IF m = windowId THEN popWindow(m, s, width)
  ELSE IF Contains(s, windowId)
  THEN Result(m, RemoveAt(s, FirstIndex(s, windowId)), <<>>, FALSE)
  ELSE Result(m, s, <<>>, FALSE)

(* moveUp without the "focus is top of stack" alternative: the loop then *)
(* reaches the last index and stackIds[i+1] raises IndexError.           *)
moveUpNoTopCase(m, s, focusedWindow) ==
  IF IsNone(focusedWindow) THEN Result(m, s, <<>>, FALSE)
  ELSE IF Len(s) < 2 THEN
    IF Len(s) = 0 THEN Result(m, s, <<>>, TRUE)
    ELSE LET targetId == Last(s)
         IN Result(targetId, Append(Front(s), m), <<CmdSwap(targetId, m)>>, FALSE)
  ELSE
    LET i == FirstIndex(s, focusedWindow.id)
    IN IF i # 0 /\ i < Len(s)
       THEN Result(m, SwapAt(s, i, i + 1), <<CmdSwap(focusedWindow.id, s[i + 1])>>, FALSE)
       ELSE IF i = Len(s) THEN Result(m, s, <<>>, TRUE)
       ELSE Result(m, s, <<>>, FALSE)

(* moveUp without the check for a missing focused window. *)
moveUpNoFocusCheck(m, s, focusedWindow) ==
  IF Len(s) < 2 \/ focusedWindow.id = Last(s) THEN
    IF Len(s) = 0 THEN Result(m, s, <<>>, TRUE)
    ELSE LET targetId == Last(s)
         IN Result(targetId, Append(Front(s), m), <<CmdSwap(targetId, m)>>, FALSE)
  ELSE
    LET i == FirstIndex(s, focusedWindow.id)
    IN IF i # 0
       THEN Result(m, SwapAt(s, i, i + 1), <<CmdSwap(focusedWindow.id, s[i + 1])>>, FALSE)
       ELSE Result(m, s, <<>>, FALSE)

moveUp(m, s, focusedWindow) ==
  IF IsNone(focusedWindow) THEN Result(m, s, <<>>, FALSE)
  ELSE IF Len(s) < 2 \/ focusedWindow.id = Last(s) THEN
    (* stackIds.pop() on an empty deque raises IndexError *)
    IF Len(s) = 0 THEN Result(m, s, <<>>, TRUE)
    ELSE LET targetId == Last(s)
         IN Result(targetId, Append(Front(s), m), <<CmdSwap(targetId, m)>>, FALSE)
  ELSE
    LET i == FirstIndex(s, focusedWindow.id)
    IN IF i # 0
       THEN Result(m, SwapAt(s, i, i + 1), <<CmdSwap(focusedWindow.id, s[i + 1])>>, FALSE)
       ELSE Result(m, s, <<>>, FALSE)

(* moveDown without the bottom-of-stack check: index i-1 = -1 then names *)
(* the top of the deque.                                                 *)
moveDownNoBottomCheck(m, s, focusedWindow) ==
  IF Len(s) < 2 THEN Result(m, s, <<>>, FALSE)
  ELSE IF IsNone(focusedWindow) THEN Result(m, s, <<>>, FALSE)
  ELSE IF focusedWindow.id = m THEN
    Result(Last(s), Append(Front(s), focusedWindow.id),
           <<CmdSwap(focusedWindow.id, Last(s))>>, FALSE)
  ELSE
    LET i == FirstIndex(s, focusedWindow.id)
        j == IF i = 1 THEN Len(s) ELSE i - 1
    IN IF i # 0
       THEN Result(m, SwapAt(s, i, j), <<CmdSwap(focusedWindow.id, s[j])>>, FALSE)
       ELSE Result(m, s, <<>>, FALSE)

moveDown(m, s, focusedWindow) ==
  IF Len(s) < 2 THEN Result(m, s, <<>>, FALSE)
  ELSE IF IsNone(focusedWindow) THEN Result(m, s, <<>>, FALSE)
  ELSE IF focusedWindow.id = s[1] THEN Result(m, s, <<>>, FALSE)
  ELSE IF focusedWindow.id = m THEN
    Result(Last(s), Append(Front(s), focusedWindow.id),
           <<CmdSwap(focusedWindow.id, Last(s))>>, FALSE)
  ELSE
    LET i == FirstIndex(s, focusedWindow.id)
    IN IF i # 0
       THEN Result(m, SwapAt(s, i, i - 1), <<CmdSwap(focusedWindow.id, s[i - 1])>>, FALSE)
       ELSE Result(m, s, <<>>, FALSE)

(* rotateCCW that records the previous master at the top of the stack *)
(* (append for appendleft).                                          *)
rotateCCWAppend(m, s) ==
  IF Len(s) < 2 THEN Result(m, s, <<>>, FALSE)
  ELSE
    LET newMasterId == Last(s)
        popped == Front(s)
        bottomId == popped[1]
    IN Result(newMasterId, Append(popped, m),
              <<CmdSwap(newMasterId, m)>> \o moveWindow(m, bottomId), FALSE)

rotateCCW(m, s) ==
  IF Len(s) < 2 THEN Result(m, s, <<>>, FALSE)
  ELSE
    LET newMasterId == Last(s)
        popped == Front(s)
        bottomId == popped[1]
    IN Result(newMasterId, <<m>> \o popped,
              <<CmdSwap(newMasterId, m)>> \o moveWindow(m, bottomId), FALSE)

(* rotateCW that promotes the top of the stack (pop for popleft). *)
rotateCWPopsTop(m, s) ==
  IF Len(s) < 2 THEN Result(m, s, <<>>, FALSE)
  ELSE
    LET newMasterId == Last(s)
        popped == Front(s)
        topId == Last(popped)
    IN Result(newMasterId, Append(popped, m),
              <<CmdSwap(newMasterId, m)>> \o moveWindow(m, topId)
                \o <<CmdFocus(m), CmdMoveUp, CmdFocus(newMasterId)>>,
              FALSE)

(* rotateCW without the closing focus command on the new master. *)
rotateCWNoRefocus(m, s) ==
  IF Len(s) < 2 THEN Result(m, s, <<>>, FALSE)
  ELSE
    LET newMasterId == s[1]
        popped == Tail(s)
        topId == Last(popped)
    IN Result(newMasterId, Append(popped, m),
              <<CmdSwap(newMasterId, m)>> \o moveWindow(m, topId)
                \o <<CmdFocus(m), CmdMoveUp>>,
              FALSE)

(* rotateCW without the move up that lifts the previous master over the *)
(* top of the stack.                                                    *)
rotateCWNoMoveUp(m, s) ==
  IF Len(s) < 2 THEN Result(m, s, <<>>, FALSE)
  ELSE
    LET newMasterId == s[1]
        popped == Tail(s)
        topId == Last(popped)
    IN Result(newMasterId, Append(popped, m),
              <<CmdSwap(newMasterId, m)>> \o moveWindow(m, topId)
                \o <<CmdFocus(m), CmdFocus(newMasterId)>>,
              FALSE)

rotateCW(m, s) ==
  IF Len(s) < 2 THEN Result(m, s, <<>>, FALSE)
  ELSE
    LET newMasterId == s[1]
        popped == Tail(s)
        topId == Last(popped)
    IN Result(newMasterId, Append(popped, m),
              <<CmdSwap(newMasterId, m)>> \o moveWindow(m, topId)
                \o <<CmdFocus(m), CmdMoveUp, CmdFocus(newMasterId)>>,
              FALSE)

(* swapMaster without the focus command on the previous master. *)
swapMasterNoRefocus(m, s, focusedWindow) ==
  IF Len(s) = 0 THEN Result(m, s, <<>>, FALSE)
  ELSE IF IsNone(focusedWindow) THEN Result(m, s, <<>>, FALSE)
  ELSE IF focusedWindow.id = m THEN
    LET targetId == Last(s)
    IN Result(targetId, Append(Front(s), m), <<CmdSwap(targetId, m)>>, FALSE)
  ELSE
    LET i == FirstIndex(s, focusedWindow.id)
    IN IF i # 0
       THEN Result(focusedWindow.id, [s EXCEPT ![i] = m],
                   <<CmdSwap(focusedWindow.id, m)>>, FALSE)
       ELSE Result(m, s, <<>>, FALSE)

(* swapMaster that does not write the previous master into the stack. *)
swapMasterDropsMaster(m, s, focusedWindow) ==
  IF Len(s) = 0 THEN Result(m, s, <<>>, FALSE)
  ELSE IF IsNone(focusedWindow) THEN Result(m, s, <<>>, FALSE)
  ELSE IF focusedWindow.id = m THEN
    LET targetId == Last(s)
    IN Result(targetId, Append(Front(s), m), <<CmdSwap(targetId, m)>>, FALSE)
  ELSE
    LET i == FirstIndex(s, focusedWindow.id)
    IN IF i # 0
       THEN Result(focusedWindow.id, s,
                   <<CmdSwap(focusedWindow.id, m), CmdFocus(m)>>, FALSE)
       ELSE Result(m, s, <<>>, FALSE)

swapMaster(m, s, focusedWindow) ==
  IF Len(s) = 0 THEN Result(m, s, <<>>, FALSE)
  ELSE IF IsNone(focusedWindow) THEN Result(m, s, <<>>, FALSE)
  ELSE IF focusedWindow.id = m THEN
    LET targetId == Last(s)
    IN Result(targetId, Append(Front(s), m), <<CmdSwap(targetId, m)>>, FALSE)
  ELSE
    LET i == FirstIndex(s, focusedWindow.id)
    IN IF i # 0
       THEN Result(focusedWindow.id, [s EXCEPT ![i] = m],
                   <<CmdSwap(focusedWindow.id, m), CmdFocus(m)>>, FALSE)
       ELSE Result(m, s, <<>>, FALSE)

(* The binding commands delivered to the manager. *)
BindingCommands ==
  {"nop swlm move up", "nop swlm move down", "nop swlm rotate ccw",
   "nop swlm move left", "nop swlm rotate cw", "nop swlm move right",
   "nop swlm swap master", "nop swlm resize"}

(* onBinding's dispatch without the aliases move left and move right. *)
BoundMethodNoAliases(command) ==
  IF command = "nop swlm move up" THEN "moveUp"
  ELSE IF command = "nop swlm move down" THEN "moveDown"
  ELSE IF command = "nop swlm rotate ccw" THEN "rotateCCW"
  ELSE IF command = "nop swlm rotate cw" THEN "rotateCW"
  ELSE IF command = "nop swlm swap master" THEN "swapMaster"
  ELSE "none"

(* The method onBinding dispatches a command to. *)
BoundMethod(command) ==
  IF command = "nop swlm move up" THEN "moveUp"
  ELSE IF command = "nop swlm move down" THEN "moveDown"
  ELSE IF command = "nop swlm rotate ccw" \/ command = "nop swlm move left" THEN "rotateCCW"
  ELSE IF command = "nop swlm rotate cw" \/ command = "nop swlm move right" THEN "rotateCW"
  ELSE IF command = "nop swlm swap master" THEN "swapMaster"
  ELSE "none"

onBinding(m, s, focusedWindow, command) ==
  LET method == BoundMethod(command)
  IN IF method = "moveUp" THEN moveUp(m, s, focusedWindow)
     ELSE IF method = "moveDown" THEN moveDown(m, s, focusedWindow)
     ELSE IF method = "rotateCCW" THEN rotateCCW(m, s)
     ELSE IF method = "rotateCW" THEN rotateCW(m, s)
     ELSE IF method = "swapMaster" THEN swapMaster(m, s, focusedWindow)
     ELSE Result(m, s, <<>>, FALSE)

windowAdded(m, s, newWindow, width) ==
  IF isExcluded(newWindow) THEN Result(m, s, <<>>, FALSE)
  ELSE pushWindow(m, s, newWindow.id, width)

windowRemoved(m, s, containerId, width) == removeWindow(m, s, containerId, width)

windowFocused(m, s, focusedWindow) ==
  IF isExcluded(focusedWindow) THEN Result(m, s, <<>>, FALSE)
  ELSE Result(m, s, setStackLayout(m, s), FALSE)

(* A node of workspace.nodes: the container and its own nodes. *)
Node(con, children) == [con |-> con, nodes |-> children]

Leaf(i) == Node(TiledWindow(i), <<>>)

(* The first loop of arrangeExistingLayout: the ids collected in untracked. *)
(* A node with children contributes its own id once per child.              *)
RECURSIVE UntrackedIn(_)
UntrackedIn(nodes) ==
  IF nodes = <<>> THEN <<>>
  ELSE
    LET node == Head(nodes)
        found ==
          IF isExcluded(node.con) THEN <<>>
          ELSE IF Len(node.nodes) = 0 THEN <<node.con.id>>
          ELSE [k \in 1..Len(node.nodes) |-> node.con.id]
    IN found \o UntrackedIn(Tail(nodes))

(* The second loop of arrangeExistingLayout and its closing setStackLayout. *)
RECURSIVE PushUntracked(_, _, _, _, _)
PushUntracked(m, s, c, untracked, width) ==
  IF untracked = <<>> THEN Result(m, s, c \o setStackLayout(m, s), FALSE)
  ELSE
    LET windowId == Head(untracked)
        r == pushWindow(m, s, windowId, width)
    IN IF windowId # m /\ ~Contains(s, windowId)
       THEN PushUntracked(r.masterId, r.stackIds,
                          c \o setStackLayout(m, s) \o <<CmdFocus(windowId)>> \o r.cmds,
                          Tail(untracked), width)
       ELSE PushUntracked(m, s, c, Tail(untracked), width)

arrangeExistingLayout(m, s, nodes, width) ==
  PushUntracked(m, s, <<>>, UntrackedIn(nodes), width)

(* The workspaces a manager is constructed on: up to NumWindows ids, all *)
(* different, as a row of tiled windows of which one stretch may be      *)
(* grouped in a split container (q[a] the container, q[a+1..b] its       *)
(* windows; a = 0 for no container).                                     *)
LeafRow(q, from, to) == [k \in 1..(IF to >= from THEN to - from + 1 ELSE 0) |-> Leaf(q[from + k - 1])]

LayoutOf(q, a, b) ==
  IF a = 0 THEN LeafRow(q, 1, Len(q))
  ELSE LeafRow(q, 1, a - 1)
         \o <<Node(TiledWindow(q[a]), LeafRow(q, a + 1, b))>>
         \o LeafRow(q, b + 1, Len(q))

IdRows ==
  UNION {{q \in [1..n -> Ids] : \A i, j \in 1..n : i # j => q[i] # q[j]} : n \in 0..NumWindows}

ExistingLayouts ==
  {LayoutOf(q, 0, 0) : q \in IdRows}
    \cup UNION {{LayoutOf(q, ab[1], ab[2]) :
                   ab \in {x \in (1..Len(q)) \X (1..Len(q)) : x[1] < x[2]}} : q \in IdRows}

(* The windows of a layout: its nodes without children and the children *)
(* of its other nodes, in the order reported.                           *)
RECURSIVE LeafIds(_)
LeafIds(nodes) ==
  IF nodes = <<>> THEN <<>>
  ELSE (IF Len(Head(nodes).nodes) = 0
        THEN <<Head(nodes).con.id>>
        ELSE [k \in 1..Len(Head(nodes).nodes) |-> Head(nodes).nodes[k].con.id])
         \o LeafIds(Tail(nodes))

(* What findFocused returns during construction: one of the workspace's *)
(* windows, or the workspace itself when it has none.                   *)
InitialFocus(nodes) ==
  IF nodes = <<>> THEN {WorkspaceCon}
  ELSE {TiledWindow(LeafIds(nodes)[k]) : k \in 1..Len(LeafIds(nodes))}

----------------------------------------------------------------------------
(* The dispatcher (src/swlm.py): the dictionaries managers and           *)
(* workspaceWindows and the handlers that route notifications.  A manager *)
(* is represented by its class; the calls a handler makes on managers are *)
(* recorded, the managers' own state being the subject of Spec.           *)

Workspaces == 1..NumWorkspaces

ManagerKinds == {"WorkspaceLayoutManager", "MasterStack", "Autotiling"}

(* options.default; "none" stands for None and for "none". *)
DefaultChoices == {"none", "MasterStack", "Autotiling"}

(* managers: the keys in insertion order, each with its manager. *)
HasManager(mgrs, num) == \E i \in 1..Len(mgrs) : mgrs[i].num = num

ManagerOf(mgrs, num) == mgrs[CHOOSE i \in 1..Len(mgrs) : mgrs[i].num = num].kind

SetManager(mgrs, num, kind) ==
  IF HasManager(mgrs, num)
  THEN [i \in 1..Len(mgrs) |-> IF mgrs[i].num = num THEN [num |-> num, kind |-> kind] ELSE mgrs[i]]
  ELSE Append(mgrs, [num |-> num, kind |-> kind])

(* workspaceWindows: per workspace, whether the key exists, and its list. *)
NotListed == [listed |-> FALSE, ids |-> <<>>]

Listed(ids) == [listed |-> TRUE, ids |-> ids]

RemoveFirst(ids, x) == IF Contains(ids, x) THEN RemoveAt(ids, FirstIndex(ids, x)) ELSE ids

Call(num, method) == [num |-> num, method |-> method]

Dispatched(mgrs, wins, calls, r) ==
  [managers |-> mgrs, workspaceWindows |-> wins, calls |-> calls, raised |-> r]

overridesMoveBinds(kind) == kind = "MasterStack"

isExcludedWorkspace(opts, num) == num \in opts.excludes

windowCreated(mgrs, wins, opts, num, window) ==
  IF isExcludedWorkspace(opts, num) THEN Dispatched(mgrs, wins, <<>>, FALSE)
  ELSE IF ~HasManager(mgrs, num) THEN Dispatched(mgrs, wins, <<>>, FALSE)
  ELSE IF IsNone(window) THEN Dispatched(mgrs, wins, <<Call(num, "windowAdded")>>, FALSE)
  ELSE IF ~wins[num].listed THEN Dispatched(mgrs, wins, <<>>, TRUE)
  ELSE Dispatched(mgrs, [wins EXCEPT ![num] = Listed(Append(wins[num].ids, window.id))],
                  <<Call(num, "windowAdded")>>, FALSE)

dispatchWindowFocused(mgrs, wins, opts, num) ==
  IF isExcludedWorkspace(opts, num) THEN Dispatched(mgrs, wins, <<>>, FALSE)
  ELSE IF ~HasManager(mgrs, num) THEN Dispatched(mgrs, wins, <<>>, FALSE)
  ELSE Dispatched(mgrs, wins, <<Call(num, "windowFocused")>>, FALSE)

windowClosed(mgrs, wins, opts, num, containerId) ==
  IF isExcludedWorkspace(opts, num) THEN Dispatched(mgrs, wins, <<>>, FALSE)
  ELSE IF ~HasManager(mgrs, num) THEN Dispatched(mgrs, wins, <<>>, FALSE)
  ELSE Dispatched(mgrs,
                  IF wins[num].listed
                  THEN [wins EXCEPT ![num] = Listed(RemoveFirst(wins[num].ids, containerId))]
                  ELSE wins,
                  <<Call(num, "windowRemoved")>>, FALSE)

(* The loop of windowMoved over the keys of managers, from position i on. *)
RECURSIVE FindOldWorkspace(_, _, _, _, _)
FindOldWorkspace(mgrs, wins, num, windowId, i) ==
  IF i > Len(mgrs) THEN Dispatched(mgrs, wins, <<Call(num, "windowMoved")>>, FALSE)
  ELSE
    LET workspaceNum == mgrs[i].num
    IN IF ~wins[workspaceNum].listed THEN Dispatched(mgrs, wins, <<>>, TRUE)
       ELSE IF Contains(wins[workspaceNum].ids, windowId) THEN
         LET removed == [wins EXCEPT ![workspaceNum] = Listed(RemoveFirst(wins[workspaceNum].ids, windowId))]
         IN Dispatched(mgrs,
                       [removed EXCEPT ![num] = Listed(Append(removed[num].ids, windowId))],
                       <<Call(workspaceNum, "windowRemoved"), Call(num, "windowAdded")>>,
                       FALSE)
       ELSE FindOldWorkspace(mgrs, wins, num, windowId, i + 1)

windowMoved(mgrs, wins, opts, num, window) ==
  IF IsNone(window) THEN Dispatched(mgrs, wins, <<>>, TRUE)
  ELSE IF isExcludedWorkspace(opts, num) THEN Dispatched(mgrs, wins, <<>>, FALSE)
  ELSE IF ~HasManager(mgrs, num) THEN Dispatched(mgrs, wins, <<>>, FALSE)
  ELSE IF ~wins[num].listed THEN Dispatched(mgrs, wins, <<>>, TRUE)
  ELSE IF ~Contains(wins[num].ids, window.id)
    THEN FindOldWorkspace(mgrs, wins, num, window.id, 1)
  ELSE Dispatched(mgrs, wins, <<Call(num, "windowMoved")>>, FALSE)

(* The binding commands the dispatcher tells apart. *)
DispatchCommands ==
  {"exec term", "nop swlm move up", "nop swlm swap master", "nop swlm layout none",
   "nop swlm layout MasterStack", "nop swlm layout Autotiling"}

(* "nop swlm" in command, "nop swlm move" in command. *)
IsSwlmCommand(command) == command # "exec term"

IsMoveCommand(command) == command = "nop swlm move up"

dispatchOnBinding(mgrs, wins, opts, num, command) ==
  IF ~IsSwlmCommand(command) THEN Dispatched(mgrs, wins, <<>>, FALSE)
  ELSE IF isExcludedWorkspace(opts, num) THEN Dispatched(mgrs, wins, <<>>, FALSE)
  ELSE IF IsMoveCommand(command) THEN
    IF ~HasManager(mgrs, num) THEN Dispatched(mgrs, wins, <<>>, TRUE)
    ELSE IF overridesMoveBinds(ManagerOf(mgrs, num))
      THEN Dispatched(mgrs, wins, <<Call(num, "onBinding")>>, FALSE)
    ELSE Dispatched(mgrs, wins, <<Call(num, "con.command")>>, FALSE)
  ELSE IF command = "nop swlm layout none" THEN
    Dispatched(SetManager(mgrs, num, "WorkspaceLayoutManager"), wins,
               <<Call(num, "__init__")>>, FALSE)
  ELSE IF command = "nop swlm layout MasterStack" THEN
    Dispatched(SetManager(mgrs, num, "MasterStack"), wins, <<Call(num, "__init__")>>, FALSE)
  ELSE IF command = "nop swlm layout Autotiling" THEN
    Dispatched(SetManager(mgrs, num, "Autotiling"), wins, <<Call(num, "__init__")>>, FALSE)
  ELSE IF ~HasManager(mgrs, num) THEN Dispatched(mgrs, wins, <<>>, FALSE)
  ELSE Dispatched(mgrs, wins, <<Call(num, "onBinding")>>, FALSE)

setWorkspaceLayoutManager(mgrs, wins, opts, num) ==
  LET created == ~HasManager(mgrs, num) /\ opts.default \in {"Autotiling", "MasterStack"}
  IN Dispatched(IF created THEN SetManager(mgrs, num, opts.default) ELSE mgrs,
                IF ~wins[num].listed THEN [wins EXCEPT ![num] = Listed(<<>>)] ELSE wins,
                IF created THEN <<Call(num, "__init__")>> ELSE <<>>,
                FALSE)

(* main's loop over con.get_workspaces(), for the workspaces from num on. *)
RECURSIVE SetDefaultManagers(_, _, _, _, _, _)
SetDefaultManagers(mgrs, wins, calls, opts, existing, num) ==
  IF num > NumWorkspaces THEN Dispatched(mgrs, wins, calls, FALSE)
  ELSE IF num \notin existing THEN SetDefaultManagers(mgrs, wins, calls, opts, existing, num + 1)
  ELSE
    LET r == setWorkspaceLayoutManager(mgrs, wins, opts, num)
    IN SetDefaultManagers(r.managers, [r.workspaceWindows EXCEPT ![num] = Listed(<<>>)],
                          calls \o r.calls, opts, existing, num + 1)

main(mgrs, wins, opts, existing) ==
  IF opts.default # "none"
  THEN SetDefaultManagers(mgrs, wins, <<>>, opts, existing, 1)
  ELSE Dispatched(mgrs, wins, <<>>, FALSE)

(* The dispatcher around the one manager Spec follows: a MasterStack *)
(* manager on workspace 1, set up by main.                           *)
DispatcherOfSpec ==
  LET opts == [default |-> "MasterStack", excludes |-> {}]
      r == main(<<>>, [num \in Workspaces |-> NotListed], opts, {1})
  IN /\ options = opts
     /\ workspaces = {1}
     /\ focusedWorkspace = 1
     /\ managers = r.managers
     /\ workspaceWindows = r.workspaceWindows
     /\ dispatched = [handler |-> "main", calls |-> r.calls, raised |-> r.raised]

----------------------------------------------------------------------------
(* The state machine. *)

Model(m, s) == [masterId |-> m, stackIds |-> s]

(* A handler has run: the model, the sink and the record of the call. *)
Handled(r, name, containerId) ==
  /\ masterId' = r.masterId
  /\ stackIds' = r.stackIds
  /\ cmds' = r.cmds
  /\ raised' = r.raised
  /\ op' = name
  /\ event' = containerId
  /\ pre' = Model(masterId, stackIds)
  /\ workspaceNodes' = <<>>
  /\ UNCHANGED <<masterWidth, focused>>
  /\ UNCHANGED dispatcherVars

(* __init__ on a workspace that holds workspaceNodes.  The variable keeps *)
(* the nodes the constructor read; the compositor's tree is not followed  *)
(* afterwards and the variable is emptied by the first step.              *)
Init ==
  /\ masterWidth \in WidthChoices
  /\ workspaceNodes \in ExistingLayouts
  /\ focused \in InitialFocus(workspaceNodes)
  /\ LET r == arrangeExistingLayout(0, <<>>, workspaceNodes, masterWidth)
     IN /\ masterId = r.masterId
        /\ stackIds = r.stackIds
        /\ cmds = r.cmds
        /\ raised = r.raised
  /\ op = "__init__"
  /\ event = 0
  /\ pre = Model(0, <<>>)
  /\ DispatcherOfSpec

(* The compositor's focus moves (the user, a new window, a focus command *)
(* taking effect).  No handler runs and nothing is sent to the sink.     *)
FocusMoves ==
  \E window \in FocusChoices :
    /\ window # focused
    /\ focused' = window
    /\ cmds' = <<>>
    /\ raised' = FALSE
    /\ op' = "focus"
    /\ event' = 0
    /\ pre' = Model(masterId, stackIds)
    /\ workspaceNodes' = <<>>
    /\ UNCHANGED <<masterId, stackIds, masterWidth>>
    /\ UNCHANGED dispatcherVars

WindowAdded ==
  LET r == windowAdded(masterId, stackIds, focused, masterWidth)
  IN /\ Len(r.stackIds) <= MaxStack
     /\ Handled(r, "windowAdded", 0)

WindowRemoved ==
  \E containerId \in Ids :
    Handled(windowRemoved(masterId, stackIds, containerId, masterWidth),
            "windowRemoved", containerId)

WindowFocused ==
  Handled(windowFocused(masterId, stackIds, focused), "windowFocused", 0)

OnBinding ==
  \E command \in BindingCommands :
    Handled(onBinding(masterId, stackIds, focused, command), command, 0)

Next == FocusMoves \/ WindowAdded \/ WindowRemoved \/ WindowFocused \/ OnBinding

Spec == Init /\ [][Next]_vars

----------------------------------------------------------------------------
(* The dispatcher as a state machine.  The manager's variables rest at  *)
(* the values of an empty model; focused is what utils.findFocused      *)
(* returns, focusedWorkspace what utils.findFocusedWorkspace returns.   *)

Routed(r, handler) ==
  /\ managers' = r.managers
  /\ workspaceWindows' = r.workspaceWindows
  /\ dispatched' = [handler |-> handler, calls |-> r.calls, raised |-> r.raised]
  /\ \A num \in Workspaces : Len(r.workspaceWindows[num].ids) <= MaxListed
  /\ UNCHANGED <<options, workspaces, focusedWorkspace, focused>>
  /\ UNCHANGED managerVars

DispatchInit ==
  /\ masterId = 0
  /\ stackIds = <<>>
  /\ masterWidth = [isNone |-> TRUE, ppt |-> 0]
  /\ cmds = <<>>
  /\ raised = FALSE
  /\ op = "__init__"
  /\ event = 0
  /\ pre = Model(0, <<>>)
  /\ workspaceNodes = <<>>
  /\ focused = NoneWindow
  /\ options \in [default : DefaultChoices, excludes : {{}, {NumWorkspaces}}]
  /\ focusedWorkspace = 1
  /\ workspaces \in {existing \in SUBSET Workspaces : 1 \in existing}
  /\ LET r == main(<<>>, [num \in Workspaces |-> NotListed], options, workspaces)
     IN /\ managers = r.managers
        /\ workspaceWindows = r.workspaceWindows
        /\ dispatched = [handler |-> "main", calls |-> r.calls, raised |-> r.raised]

(* The handlers run while con.main() runs, which an exception ends. *)
Running == ~dispatched.raised

(* The focused window changes; the dispatcher's windowFocused routes the *)
(* notification.                                                         *)
DispatchWindowFocused ==
  /\ Running
  /\ \E window \in {NoneWindow} \cup {TiledWindow(i) : i \in Ids} :
       /\ focused' = window
       /\ LET r == dispatchWindowFocused(managers, workspaceWindows, options, focusedWorkspace)
          IN dispatched' = [handler |-> "windowFocused", calls |-> r.calls, raised |-> r.raised]
  /\ UNCHANGED <<managers, workspaceWindows, options, workspaces, focusedWorkspace>>
  /\ UNCHANGED managerVars

WindowCreated ==
  /\ Running
  /\ Routed(windowCreated(managers, workspaceWindows, options, focusedWorkspace, focused),
            "windowCreated")

WindowClosed ==
  /\ Running
  /\ \E containerId \in Ids :
       Routed(windowClosed(managers, workspaceWindows, options, focusedWorkspace, containerId),
              "windowClosed")

WindowMoved ==
  /\ Running
  /\ Routed(windowMoved(managers, workspaceWindows, options, focusedWorkspace, focused),
            "windowMoved")

DispatchOnBinding ==
  /\ Running
  /\ \E command \in DispatchCommands :
       Routed(dispatchOnBinding(managers, workspaceWindows, options, focusedWorkspace, command),
              "onBinding")

(* The focus moves to another workspace; onWorkspace handles the *)
(* notification when main subscribed it (a default layout is set). *)
OnWorkspace ==
  /\ Running
  /\ \E num \in Workspaces :
       /\ num # focusedWorkspace
       /\ focusedWorkspace' = num
       /\ workspaces' = workspaces \cup {num}
       /\ LET r == IF options.default # "none"
                   THEN setWorkspaceLayoutManager(managers, workspaceWindows, options, num)
                   ELSE Dispatched(managers, workspaceWindows, <<>>, FALSE)
          IN /\ managers' = r.managers
             /\ workspaceWindows' = r.workspaceWindows
             /\ dispatched' = [handler |-> "onWorkspace", calls |-> r.calls, raised |-> r.raised]
  /\ UNCHANGED <<options, focused>>
  /\ UNCHANGED managerVars

(* main's except branch: after an exception main runs again. *)
Restart ==
  /\ dispatched.raised
  /\ LET r == main(managers, workspaceWindows, options, workspaces)
     IN /\ managers' = r.managers
        /\ workspaceWindows' = r.workspaceWindows
        /\ dispatched' = [handler |-> "main", calls |-> r.calls, raised |-> r.raised]
  /\ UNCHANGED <<options, workspaces, focusedWorkspace, focused>>
  /\ UNCHANGED managerVars

DispatchNext ==
  \/ DispatchWindowFocused
  \/ WindowCreated
  \/ WindowClosed
  \/ WindowMoved
  \/ DispatchOnBinding
  \/ OnWorkspace
  \/ Restart

DispatchSpec == DispatchInit /\ [][DispatchNext]_vars

----------------------------------------------------------------------------
(* Vocabulary of the properties. *)

NavMethods == {"moveUp", "moveDown", "rotateCCW", "rotateCW", "swapMaster"}

(* The last step was a binding dispatched to this method. *)
Ran(method) == BoundMethod(op) = method

RanNav == BoundMethod(op) \in NavMethods

Tracked(model) == {model.masterId} \cup SeqToSet(model.stackIds)

NoDuplicates(m, s) ==
  /\ \A i \in 1..Len(s) : s[i] # m
  /\ \A i, j \in 1..Len(s) : i # j => s[i] # s[j]

Unchanged == masterId = pre.masterId /\ stackIds = pre.stackIds

----------------------------------------------------------------------------
(* C1: whenever the stack is non-empty the master slot is non-empty. *)
C1_StackImpliesMaster == Len(stackIds) # 0 => masterId # 0

(* C1 witness: the master was removed while the stack held two windows. *)
C1_Witness ==
  /\ op = "windowRemoved"
  /\ event = pre.masterId
  /\ Len(pre.stackIds) >= 2
  /\ Len(stackIds) >= 1

(* C2: no identifier appears twice across the master slot and the stack. *)
C2_NoDuplicates == NoDuplicates(masterId, stackIds)

----------------------------------------------------------------------------
(* The compositor of C3: the master window, the stack column from top to  *)
(* bottom, the focused window and the window carrying the move_target     *)
(* mark.  swap exchanges two windows' positions, move-to-mark puts the    *)
(* moved window directly beneath the marked one, move up raises the       *)
(* focused window one position.                                           *)

Screen(m, s, focusId) == [master |-> m, column |-> Reverse(s), focus |-> focusId, mark |-> 0]

Renamed(x, a, b) == IF x = a THEN b ELSE IF x = b THEN a ELSE x

ApplySwap(sc, a, b) ==
  [sc EXCEPT !.master = Renamed(sc.master, a, b),
             !.column = [i \in 1..Len(sc.column) |-> Renamed(sc.column[i], a, b)]]

ApplyMoveToMark(sc, moveId) ==
  IF moveId # sc.mark /\ Contains(sc.column, moveId) /\ Contains(sc.column, sc.mark)
  THEN LET without == RemoveAt(sc.column, FirstIndex(sc.column, moveId))
           j == FirstIndex(without, sc.mark)
       IN [sc EXCEPT !.column = SubSeq(without, 1, j) \o <<moveId>>
                                  \o SubSeq(without, j + 1, Len(without))]
  ELSE sc

ApplyMoveUp(sc) ==
  LET i == FirstIndex(sc.column, sc.focus)
  IN IF i > 1 THEN [sc EXCEPT !.column = SwapAt(sc.column, i, i - 1)] ELSE sc

ApplyCmd(sc, c) ==
  IF c.cmd = "swap container with con_id" THEN ApplySwap(sc, c.con_id, c.arg)
  ELSE IF c.cmd = "mark --add move_target" THEN [sc EXCEPT !.mark = c.con_id]
  ELSE IF c.cmd = "move container to mark move_target" THEN ApplyMoveToMark(sc, c.con_id)
  ELSE IF c.cmd = "unmark move_target" THEN [sc EXCEPT !.mark = 0]
  ELSE IF c.cmd = "focus" THEN [sc EXCEPT !.focus = c.con_id]
  ELSE IF c.cmd = "move up" THEN ApplyMoveUp(sc)
  ELSE sc

RECURSIVE ApplyCmds(_, _)
ApplyCmds(sc, cs) ==
  IF cs = <<>> THEN sc ELSE ApplyCmds(ApplyCmd(sc, Head(cs)), Tail(cs))

(* The arrangement on screen matches the model (m, s). *)
Matches(sc, m, s) == sc.master = m /\ sc.column = Reverse(s)

(* C3: a navigation operation started from an arrangement that matches the *)
(* model (so the model names every window once) issues commands that, run *)
(* in order by the compositor, give an arrangement matching the new model. *)
C3_CommandsRealiseModel ==
  (RanNav /\ NoDuplicates(pre.masterId, pre.stackIds))
    => Matches(ApplyCmds(Screen(pre.masterId, pre.stackIds, focused.id), cmds),
               masterId, stackIds)

(* C3 witness: a clockwise rotation of a master and two stacked windows. *)
C3_Witness ==
  /\ Ran("rotateCW")
  /\ NoDuplicates(pre.masterId, pre.stackIds)
  /\ Len(pre.stackIds) = 2
  /\ Len(cmds) = 7

----------------------------------------------------------------------------
(* C4: pushing a non-excluded, untracked window w makes w the master; a   *)
(* previous master is appended at the top of the otherwise unchanged      *)
(* stack.                                                                  *)
C4_PushMakesMaster ==
  (op = "windowAdded" /\ ~isExcluded(focused) /\ focused.id \notin Tracked(pre))
    => /\ masterId = focused.id
       /\ pre.masterId # 0 => stackIds = Append(pre.stackIds, pre.masterId)
       /\ pre.masterId = 0 => stackIds = pre.stackIds

(* C4 witness: a third window was pushed onto a master and one stacked window. *)
C4_Witness ==
  /\ op = "windowAdded"
  /\ ~isExcluded(focused)
  /\ focused.id \notin Tracked(pre)
  /\ Len(pre.stackIds) = 1
  /\ Len(stackIds) = 2

----------------------------------------------------------------------------
(* C5: removeWindow(w).  w the master: the top of the stack is popped and *)
(* becomes master, with a focus command on it; an empty stack leaves the  *)
(* master slot empty.  w in the stack: w is gone from the stack, and the  *)
(* master and the order of the remaining stack windows are unchanged.     *)
C5_RemoveWindow ==
  op = "windowRemoved" =>
    /\ (event = pre.masterId /\ Len(pre.stackIds) # 0) =>
         /\ masterId = Last(pre.stackIds)
         /\ stackIds = Front(pre.stackIds)
         /\ Contains(cmds, CmdFocus(masterId))
    /\ (event = pre.masterId /\ Len(pre.stackIds) = 0) =>
         /\ masterId = 0
         /\ stackIds = <<>>
    /\ (event # pre.masterId /\ Contains(pre.stackIds, event)) =>
         /\ masterId = pre.masterId
         /\ ~Contains(stackIds, event)
         /\ stackIds = RemoveAt(pre.stackIds, FirstIndex(pre.stackIds, event))

----------------------------------------------------------------------------
(* C6: a windowRemoved for an identifier that is neither the master nor in *)
(* the stack does not raise, issues no command and changes nothing.        *)
C6_RemoveUntracked ==
  (op = "windowRemoved" /\ event \notin Tracked(pre))
    => ~raised /\ cmds = <<>> /\ Unchanged

(* C6 witness: an untracked window closed while other windows are tracked. *)
C6_Witness ==
  /\ op = "windowRemoved"
  /\ event \notin Tracked(pre)
  /\ Len(pre.stackIds) >= 1

----------------------------------------------------------------------------
(* The operation lacks the elements it needs: a rotation with fewer than  *)
(* two stacked windows, a swap or a move with an empty stack.             *)
LacksElements ==
  \/ (Ran("rotateCCW") \/ Ran("rotateCW")) /\ Len(pre.stackIds) < 2
  \/ (Ran("swapMaster") \/ Ran("moveUp") \/ Ran("moveDown")) /\ Len(pre.stackIds) = 0

(* C7: no navigation binding raises, and one that lacks the elements it   *)
(* needs leaves master and stack unchanged.                               *)
C7_NavigationNeverRaises ==
  RanNav => /\ ~raised
            /\ LacksElements => Unchanged

----------------------------------------------------------------------------
(* C8 as stated: every navigation operation invoked while no window is    *)
(* focused changes nothing and issues no command.                         *)
C8_NoFocusNoOp ==
  (RanNav /\ IsNone(focused)) => Unchanged /\ cmds = <<>>

(* C8 amended: moveUp, moveDown and swapMaster invoked while no window is *)
(* focused change nothing, issue no command and do not raise; rotateCCW   *)
(* and rotateCW do not consult the focus: without a focused window they   *)
(* change nothing when the stack holds fewer than two windows and issue   *)
(* their rotation commands when it holds two or more.                     *)
C8_FocusReadersNoOp ==
  IsNone(focused) =>
    /\ (Ran("moveUp") \/ Ran("moveDown") \/ Ran("swapMaster"))
         => Unchanged /\ cmds = <<>> /\ ~raised
    /\ ((Ran("rotateCCW") \/ Ran("rotateCW")) /\ Len(pre.stackIds) < 2)
         => Unchanged /\ cmds = <<>>
    /\ ((Ran("rotateCCW") \/ Ran("rotateCW")) /\ Len(pre.stackIds) >= 2)
         => /\ cmds # <<>>
            /\ masterId \in SeqToSet(pre.stackIds)
            /\ Contains(stackIds, pre.masterId)

(* C8 witness: move up ran with no focused window on a non-empty stack. *)
C8_Witness ==
  /\ Ran("moveUp")
  /\ IsNone(focused)
  /\ Len(stackIds) >= 1

----------------------------------------------------------------------------
(* C9: a navigation operation keeps the set of tracked identifiers and    *)
(* the length of the stack.                                               *)
C9_PureRearrangement ==
  RanNav => /\ Tracked(Model(masterId, stackIds)) = Tracked(pre)
            /\ Len(stackIds) = Len(pre.stackIds)

(* C9 witness: swap master ran with the focus on a stacked window. *)
C9_Witness ==
  /\ Ran("swapMaster")
  /\ Contains(pre.stackIds, focused.id)
  /\ masterId = focused.id
  /\ masterId # pre.masterId

----------------------------------------------------------------------------
(* C10: a rotateCCW from a model with at least two stacked windows        *)
(* followed immediately by a rotateCW gives back that model: pre is the   *)
(* model the rotateCCW started from, the primed one what rotateCW leaves. *)
C10_RotateRoundTrip ==
  [][(Ran("rotateCCW") /\ Len(pre.stackIds) >= 2 /\ BoundMethod(op') = "rotateCW")
       => (masterId' = pre.masterId /\ stackIds' = pre.stackIds)]_vars

(* C10 witness: rotateCW has just run from the model rotateCCW makes of *)
(* the present one, three distinct windows being tracked.               *)
C10_Witness ==
  /\ Ran("rotateCW")
  /\ Len(stackIds) >= 2
  /\ NoDuplicates(masterId, stackIds)
  /\ pre = Model(rotateCCW(masterId, stackIds).masterId, rotateCCW(masterId, stackIds).stackIds)

----------------------------------------------------------------------------
(* x is in the stack s and at neither of its ends. *)
InMiddle(s, x) == Len(s) >= 3 /\ Contains(s, x) /\ s[1] # x /\ Last(s) # x

(* The exchange of the master with the top of the stack. *)
MasterTopExchanged ==
  /\ masterId = Last(pre.stackIds)
  /\ stackIds = Append(Front(pre.stackIds), pre.masterId)

(* C11: with at least three stacked windows and the focused window in the *)
(* stack at neither end, a moveUp followed immediately by a moveDown with *)
(* the same window focused gives back the stack and the master.           *)
C11_MoveUpDownRoundTrip ==
  [][(/\ Ran("moveUp")
      /\ InMiddle(pre.stackIds, focused.id)
      /\ BoundMethod(op') = "moveDown"
      /\ focused' = focused)
       => (masterId' = pre.masterId /\ stackIds' = pre.stackIds)]_vars

----------------------------------------------------------------------------
(* C12: pushing an untracked window w and removing w in the next          *)
(* notification gives back the master and the stack the push started from *)
(* (the empty model when it started from the empty model).                *)
C12_PushRemoveRoundTrip ==
  [][(/\ op = "windowAdded"
      /\ ~isExcluded(focused)
      /\ focused.id \notin Tracked(pre)
      /\ masterId = focused.id
      /\ op' = "windowRemoved"
      /\ event' = focused.id)
       => (masterId' = pre.masterId /\ stackIds' = pre.stackIds)]_vars

(* C12 witness: the window just removed was the master pushed on top of a *)
(* master and two stacked windows, and its removal left exactly them.     *)
C12_Witness ==
  /\ op = "windowRemoved"
  /\ event = pre.masterId
  /\ event \notin Tracked(Model(masterId, stackIds))
  /\ Len(stackIds) >= 1
  /\ pre.stackIds = Append(stackIds, masterId)

----------------------------------------------------------------------------
(* C13: swapMaster.  Empty stack: nothing changes, no command.  Focus on  *)
(* the master: master and top of stack exchange roles.  Focus on a        *)
(* stacked window, at position i: it becomes master, the previous master  *)
(* takes position i, the other positions keep their windows, and a focus  *)
(* command on the previous master follows the swap command.  (The cases   *)
(* are taken in this order; a position is that of the first occurrence.)  *)
C13_SwapMaster ==
  Ran("swapMaster") =>
    IF Len(pre.stackIds) = 0 THEN Unchanged /\ cmds = <<>>
    ELSE IF IsNone(focused) THEN TRUE
    ELSE IF focused.id = pre.masterId THEN MasterTopExchanged
    ELSE IF Contains(pre.stackIds, focused.id) THEN
      LET i == FirstIndex(pre.stackIds, focused.id)
      IN /\ masterId = focused.id
         /\ stackIds = [pre.stackIds EXCEPT ![i] = pre.masterId]
         /\ \E j, k \in 1..Len(cmds) :
              /\ j < k
              /\ cmds[j] = CmdSwap(focused.id, pre.masterId)
              /\ cmds[k] = CmdFocus(pre.masterId)
    ELSE TRUE

(* C13 witness: master 3, stack [1, 2], focus on 1 gave master 1, stack [3, 2]. *)
C13_Witness ==
  /\ Ran("swapMaster")
  /\ pre = Model(3, <<1, 2>>)
  /\ focused.id = 1
  /\ masterId = 1
  /\ stackIds = <<3, 2>>

----------------------------------------------------------------------------
(* C14: moveUp with a focused window.  Fewer than two stacked windows, or *)
(* the focus on the top of the stack: master and top of stack are         *)
(* exchanged (nothing changes when there is no top).  Otherwise the       *)
(* focused window, at stack position i, is exchanged with the window at   *)
(* position i+1 and the master is unchanged.                              *)
C14_MoveUp ==
  (Ran("moveUp") /\ ~IsNone(focused)) =>
    IF Len(pre.stackIds) = 0 THEN Unchanged
    ELSE IF Len(pre.stackIds) < 2 \/ focused.id = Last(pre.stackIds) THEN MasterTopExchanged
    ELSE IF Contains(pre.stackIds, focused.id) THEN
      LET i == FirstIndex(pre.stackIds, focused.id)
      IN /\ masterId = pre.masterId
         /\ stackIds = SwapAt(pre.stackIds, i, i + 1)
    ELSE TRUE

(* C14 witness: the focused window climbed from the bottom of a stack of *)
(* two or more windows.                                                  *)
C14_Witness ==
  /\ Ran("moveUp")
  /\ Len(pre.stackIds) >= 2
  /\ focused.id = pre.stackIds[1]
  /\ focused.id # Last(pre.stackIds)
  /\ stackIds[2] = focused.id
  /\ stackIds # pre.stackIds

----------------------------------------------------------------------------
(* What C15 says of moveDown once the stack size is not in the way. *)
MoveDownCases ==
  IF focused.id = pre.stackIds[1] THEN Unchanged
  ELSE IF focused.id = pre.masterId THEN MasterTopExchanged
  ELSE IF Contains(pre.stackIds, focused.id) THEN
    LET i == FirstIndex(pre.stackIds, focused.id)
    IN /\ masterId = pre.masterId
       /\ stackIds = SwapAt(pre.stackIds, i, i - 1)
  ELSE TRUE

(* C15 as stated: moveDown with a focused window, for every stack size:   *)
(* focus on the bottom of the stack changes nothing, focus on the master  *)
(* exchanges master and top of stack, otherwise the focused window at     *)
(* position i is exchanged with the window at position i-1.               *)
C15_MoveDownEverySize ==
  (Ran("moveDown") /\ ~IsNone(focused) /\ Len(pre.stackIds) >= 1) => MoveDownCases

(* C15 amended: the three cases hold when the stack holds two or more    *)
(* windows; with fewer than two, moveDown changes nothing and issues no  *)
(* command, whichever window is focused.                                 *)
C15_MoveDown ==
  Ran("moveDown") =>
    IF Len(pre.stackIds) < 2 THEN Unchanged /\ cmds = <<>> /\ ~raised
    ELSE ~IsNone(focused) => MoveDownCases

(* C15 witness: the focused window went down from the top of a stack of *)
(* two or more windows.                                                 *)
C15_Witness ==
  /\ Ran("moveDown")
  /\ Len(pre.stackIds) >= 2
  /\ focused.id = Last(pre.stackIds)
  /\ focused.id # pre.stackIds[1]
  /\ focused.id # pre.masterId
  /\ stackIds # pre.stackIds

----------------------------------------------------------------------------
(* C16: with two or more stacked windows rotateCCW makes the top of the   *)
(* stack the master and puts the previous master at the bottom, rotateCW  *)
(* makes the bottom the master and puts the previous master at the top,   *)
(* the others keeping their order; with fewer than two, both change       *)
(* nothing and issue no command.                                          *)
C16_Rotations ==
  /\ Ran("rotateCCW") =>
       IF Len(pre.stackIds) >= 2
       THEN /\ masterId = Last(pre.stackIds)
            /\ stackIds = <<pre.masterId>> \o Front(pre.stackIds)
       ELSE Unchanged /\ cmds = <<>>
  /\ Ran("rotateCW") =>
       IF Len(pre.stackIds) >= 2
       THEN /\ masterId = pre.stackIds[1]
            /\ stackIds = Append(Tail(pre.stackIds), pre.masterId)
       ELSE Unchanged /\ cmds = <<>>

(* C16 witness: a counter-clockwise rotation of three distinct windows. *)
C16_Witness ==
  /\ Ran("rotateCCW")
  /\ Len(pre.stackIds) = 2
  /\ NoDuplicates(pre.masterId, pre.stackIds)
  /\ stackIds[1] = pre.masterId
  /\ masterId = pre.stackIds[2]

----------------------------------------------------------------------------
(* C17: the commands of a rotateCW that rotates: first the swap of the    *)
(* new master with the previous one, then mark, move-to-mark and unmark   *)
(* putting the previous master at the top of the stack, and as the last   *)
(* command a focus on the new master, the master of the model afterwards. *)
C17_RotateCWCommandOrder ==
  (Ran("rotateCW") /\ Len(pre.stackIds) >= 2) =>
    /\ Len(cmds) >= 5
    /\ cmds[1] = CmdSwap(pre.stackIds[1], pre.masterId)
    /\ SubSeq(cmds, 2, 4) = <<CmdMark(Last(pre.stackIds)), CmdMoveToMark(pre.masterId),
                              CmdUnmark(Last(pre.stackIds))>>
    /\ Last(cmds) = CmdFocus(masterId)
    /\ masterId = pre.stackIds[1]

(* C17 witness: a clockwise rotation whose last command focuses a new master. *)
C17_Witness ==
  /\ Ran("rotateCW")
  /\ Len(pre.stackIds) >= 2
  /\ masterId # pre.masterId
  /\ cmds # <<>>
  /\ Last(cmds).cmd = "focus"
  /\ Last(cmds).con_id = masterId

----------------------------------------------------------------------------
(* C20: move left does what rotate ccw does and move right what rotate cw *)
(* does from the same model and focus (same master, stack, commands), and *)
(* a binding command that is none of the seven changes nothing and issues *)
(* no command.                                                            *)
SameAs(command) ==
  LET r == onBinding(pre.masterId, pre.stackIds, focused, command)
  IN masterId = r.masterId /\ stackIds = r.stackIds /\ cmds = r.cmds /\ raised = r.raised

RecognisedCommands ==
  {"nop swlm move up", "nop swlm move down", "nop swlm rotate ccw", "nop swlm move left",
   "nop swlm rotate cw", "nop swlm move right", "nop swlm swap master"}

C20_BindingAliases ==
  /\ op = "nop swlm move left" =>
       /\ SameAs("nop swlm rotate ccw")
       /\ masterId = rotateCCW(pre.masterId, pre.stackIds).masterId
       /\ stackIds = rotateCCW(pre.masterId, pre.stackIds).stackIds
       /\ cmds = rotateCCW(pre.masterId, pre.stackIds).cmds
  /\ op = "nop swlm move right" =>
       /\ SameAs("nop swlm rotate cw")
       /\ masterId = rotateCW(pre.masterId, pre.stackIds).masterId
       /\ stackIds = rotateCW(pre.masterId, pre.stackIds).stackIds
       /\ cmds = rotateCW(pre.masterId, pre.stackIds).cmds
  /\ (op \in BindingCommands \ RecognisedCommands) => Unchanged /\ cmds = <<>> /\ ~raised

(* C20 witness: move left rotated a master and two or more stacked windows. *)
C20_Witness ==
  /\ op = "nop swlm move left"
  /\ Len(pre.stackIds) >= 2
  /\ masterId = Last(pre.stackIds)
  /\ cmds # <<>>

----------------------------------------------------------------------------
(* The last handler changed the stack from empty to non-empty or back. *)
EmptinessFlipped == (Len(pre.stackIds) = 0) # (Len(stackIds) = 0)

(* The container setStackLayout is to address in the current model. *)
OrientationTarget == IF Len(stackIds) # 0 THEN stackIds[1] ELSE masterId

(* c holds a split command and a layout command addressed to target. *)
OrientationIssued(c, target) ==
  /\ \E i \in 1..Len(c) : c[i] \in {CmdSplitVertical(target), CmdSplitHorizontal(target)}
  /\ \E i \in 1..Len(c) : c[i] \in {CmdLayoutStack(target), CmdLayoutSplith(target)}

(* C18: when a handler has changed the stack from empty to non-empty or  *)
(* back, a split command and a layout command addressed to the bottom of *)
(* the stack (to the master when the stack is empty) are issued before   *)
(* the next window is pushed: by that handler, or by the pushing handler *)
(* ahead of the push.  Stated for a push that is the very next step and  *)
(* inserts a window the model does not hold (and that is not the window  *)
(* whose closing was just handled).                                      *)
C18_OrientationBeforePush ==
  [][(/\ EmptinessFlipped
      /\ op' = "windowAdded"
      /\ focused' = focused
      /\ ~isExcluded(focused)
      /\ focused.id # event
      /\ focused.id \notin Tracked(Model(masterId, stackIds)))
       => (\/ OrientationIssued(cmds, OrientationTarget)
           \/ OrientationIssued(cmds', OrientationTarget))]_vars

----------------------------------------------------------------------------
(* Pushing the windows of ids onto the model (m, s), first to last. *)
RECURSIVE PushAll(_, _, _, _)
PushAll(m, s, ids, width) ==
  IF ids = <<>> THEN Model(m, s)
  ELSE LET r == pushWindow(m, s, Head(ids), width)
       IN PushAll(r.masterId, r.stackIds, Tail(ids), width)

(* How often x is tracked: as master and in the stack. *)
TimesTracked(x) ==
  Cardinality({i \in 1..Len(stackIds) : stackIds[i] = x}) + (IF masterId = x THEN 1 ELSE 0)

(* C19: after construction on a workspace with windows the model is the  *)
(* one obtained by pushing onto the empty model, in the reported order,  *)
(* every window that is a child or a child of a child of the workspace   *)
(* (none of them is excluded here): every tracked id is the id of such a *)
(* window and every such window is tracked exactly once.                 *)
C19_ReconciliationTracksLeaves ==
  (op = "__init__" /\ workspaceNodes # <<>>) =>
    /\ Model(masterId, stackIds) = PushAll(0, <<>>, LeafIds(workspaceNodes), masterWidth)
    /\ Tracked(Model(masterId, stackIds)) \subseteq SeqToSet(LeafIds(workspaceNodes))
    /\ \A x \in SeqToSet(LeafIds(workspaceNodes)) : TimesTracked(x) = 1

----------------------------------------------------------------------------
(* C21: every command addressed by window identifier that the manager  *)
(* issues names a window identifier, never the empty-master value 0    *)
(* (for a swap, neither of the two identifiers is 0), in every state,  *)
(* construction on an empty workspace and a focus notification on the  *)
(* empty model included.                                               *)
C21_AddressedToWindows ==
  \A i \in 1..Len(cmds) :
    cmds[i].addressed =>
      /\ cmds[i].con_id \in Ids
      /\ (cmds[i].cmd = CmdSwap(1, 1).cmd => cmds[i].arg \in Ids)

----------------------------------------------------------------------------
(* C22: in the dispatcher every workspace that has a manager also has a  *)
(* window list, and a window-created notification on a managed workspace *)
(* that is not excluded reaches that manager's windowAdded and raises    *)
(* nothing, also when the manager comes from a layout binding on a       *)
(* workspace setWorkspaceLayoutManager never saw.                        *)
C22_ManagedWorkspaceHasList ==
  /\ \A num \in Workspaces : HasManager(managers, num) => workspaceWindows[num].listed
  /\ (/\ dispatched.handler = "windowCreated"
      /\ HasManager(managers, focusedWorkspace)
      /\ ~isExcludedWorkspace(options, focusedWorkspace))
       => (/\ ~dispatched.raised
           /\ dispatched.calls = <<Call(focusedWorkspace, "windowAdded")>>)

====
